---- MODULE Spec2Model ----
(***************************************************************************)
(* Model of vectorize.py: DocumentVectorizer.chunk_text run step by step   *)
(* on bounded inputs, and main / process_documents over a small directory  *)
(* of PDF files.  Texts are sequences of one-character strings.            *)
(***************************************************************************)
EXTENDS Integers, Sequences, FiniteSets, TLC

\* ------------------------------------------------------------------ bounds
MaxLen == 5        \* longest enumerated input text of chunk_text
MaxChunk == 5      \* largest enumerated chunk_size
MaxIter == 8       \* chunk_text iterations explored before the run is cut
MaxFiles == 3       \* most PDF files in the assets directory

\* --------------------------------------------------------------- characters
SP == " "
NL == "\n"
TAB == "\t"
Whitespace == {SP, NL, TAB}
Alphabet == {"a", SP, NL}

ExampleText ==
  <<"a","a","a","a"," ","b","b","b","b"," ","c","c","c","c"," ","d","d","d","d">>

Texts == UNION {[1..n -> Alphabet] : n \in 0..MaxLen}

\* ------------------------------------------------------- Python primitives
SetMax(S) == CHOOSE x \in S : \A y \in S : y <= x
SetMin(S) == CHOOSE x \in S : \A y \in S : x <= y

\* a slice bound i clamped to 0..n, negative bounds counted from the end
PyIdx(i, n) ==
  IF i < 0 THEN (IF n + i < 0 THEN 0 ELSE n + i)
  ELSE (IF i > n THEN n ELSE i)

\* t[s:e] taken one element short, as if the end bound were inclusive
Slice_short(t, s, e) ==
  LET lo == PyIdx(s, Len(t))
      hi == PyIdx(e - 1, Len(t))
  IN IF lo >= hi THEN << >> ELSE SubSeq(t, lo + 1, hi)

\* t[s:e], 0-based, half open
Slice(t, s, e) ==
  LET lo == PyIdx(s, Len(t))
      hi == PyIdx(e, Len(t))
  IN IF lo >= hi THEN << >> ELSE SubSeq(t, lo + 1, hi)

\* the last space looked for in c[:-1] only: the last character is missed
rfind_short(c) ==
  LET I == {i \in 1..(Len(c) - 1) : c[i] = SP}
  IN IF I = {} THEN -1 ELSE SetMax(I) - 1

\* c.rfind(' '): 0-based index of the last space, -1 when there is none
rfind(c) ==
  LET I == {i \in 1..Len(c) : c[i] = SP}
  IN IF I = {} THEN -1 ELSE SetMax(I) - 1

\* c.strip(): leading and trailing whitespace removed
strip(c) ==
  LET I == {i \in 1..Len(c) : c[i] \notin Whitespace}
  IN IF I = {} THEN << >> ELSE SubSeq(c, SetMin(I), SetMax(I))

\* ------------------------------------------------- one chunk_text iteration
\* the locals after the body of the while loop, from the state before it
Iteration(t, st, cs, ov) ==
  LET end0 == st + cs
      chunk0 == Slice(t, st, end0)
      last_space == IF end0 < Len(t) THEN rfind(chunk0) ELSE -1
      cut == last_space # -1
      chunk == IF cut THEN SubSeq(chunk0, 1, last_space) ELSE chunk0
      end == IF cut THEN st + last_space ELSE end0
      lo == PyIdx(st, Len(t))
  IN [chunk |-> chunk, end |-> end, next |-> end - ov,
      lo |-> lo, hi |-> lo + Len(chunk), cut |-> cut]

NonEmpty(cs) == SelectSeq(cs, LAMBDA c : c # << >>)

\* --------------------------------------------------- chunk_text as a function
\* the while loop from a given start; a start value seen before means the
\* loop repeats itself for ever (its body depends on start alone)
RECURSIVE chunk_loop(_, _, _, _, _, _)
RECURSIVE chunk_body(_, _, _, _, _, _, _)
chunk_loop(t, cs, ov, st, acc, seen) ==
  IF st >= Len(t) THEN [ok |-> TRUE, chunks |-> acc]
  ELSE IF st \in seen THEN [ok |-> FALSE, chunks |-> acc]
  ELSE chunk_body(t, cs, ov, st, acc, seen, Iteration(t, st, cs, ov))

\* chunks.append(chunk.strip()); start = end - overlap; and round again
chunk_body(t, cs, ov, st, acc, seen, it) ==
  chunk_loop(t, cs, ov, it.next, Append(acc, strip(it.chunk)), seen \cup {st})

\* ok = FALSE: the call never returns
chunk_text(t, cs, ov) ==
  LET r == chunk_loop(t, cs, ov, 0, << >>, {})
  IN [ok |-> r.ok, chunks |-> NonEmpty(r.chunks)]

DefaultChunkSize == 1000
DefaultOverlap == 100

\* ----------------------------------------------------------- PDF files
FileKinds == {"corrupt", "nopages", "blank", "prose", "solid", "unbroken"}

PageLen == 1200

\* what page.extract_text() gives for the pages of a file of each kind
Pages(kind) ==
  CASE kind = "nopages" -> << >>
    [] kind = "blank" -> << << >> >>
    [] kind = "prose" -> << [i \in 1..PageLen |-> IF i % 6 = 0 THEN SP ELSE "a"],
                            [i \in 1..PageLen |-> IF i % 6 = 0 THEN SP ELSE "a"] >>
    [] kind = "solid" -> << [i \in 1..PageLen |-> "a"] >>
    [] kind = "unbroken" -> << [i \in 1..PageLen |-> IF i = 300 THEN SP ELSE "a"] >>
    [] OTHER -> << >>

Digit(n) == <<"1", "2", "3", "4", "5", "6", "7", "8", "9">>[n]

\* f"\n--- Page {page_num + 1} ---\n"
PageHeader(n) ==
  <<NL, "-", "-", "-", SP, "P", "a", "g", "e", SP, Digit(n), SP, "-", "-", "-", NL>>

RECURSIVE JoinPages(_, _)
JoinPages(pages, n) ==
  IF n = 0 THEN << >>
  ELSE JoinPages(pages, n - 1) \o PageHeader(n) \o pages[n]

\* failed: the try block raised, the failure is printed and "" returned
extract_text_from_pdf(kind) ==
  IF kind = "corrupt" THEN [text |-> << >>, failed |-> TRUE]
  ELSE [text |-> JoinPages(Pages(kind), Len(Pages(kind))), failed |-> FALSE]

\* chunk_index of every record of batch_data: enumerate(chunks) without the
\* chunks that are empty after strip()
batch_indices(cs) ==
  LET keep == {i \in 1..Len(cs) : strip(cs[i]) # << >>}
      F[k \in 0..Len(cs)] ==
        IF k = 0 THEN << >>
        ELSE IF k \in keep THEN Append(F[k - 1], k - 1) ELSE F[k - 1]
  IN F[Len(cs)]

\* the text of each kind of file, extracted once
extracted ==
  [corrupt |-> extract_text_from_pdf("corrupt"),
   nopages |-> extract_text_from_pdf("nopages"),
   blank |-> extract_text_from_pdf("blank"),
   prose |-> extract_text_from_pdf("prose"),
   solid |-> extract_text_from_pdf("solid"),
   unbroken |-> extract_text_from_pdf("unbroken")]

\* self.chunk_text(text): the default sizes, for each kind of file
\* what process_documents keeps of chunks = self.chunk_text(text): whether
\* the call returns, len(chunks) and the chunk_index values of batch_data
chunk_summary(ct) ==
  [ok |-> ct.ok, n |-> Len(ct.chunks), batch_data |-> batch_indices(ct.chunks)]

default_chunks(kind) ==
  chunk_summary(chunk_text(extracted[kind].text, DefaultChunkSize, DefaultOverlap))

\* the chunks of each kind of file, computed once
chunked == [k \in FileKinds |-> default_chunks(k)] @@ << >>

\* total_chunks counted before the upload is known to have succeeded
total_after_always(total, n, ok) == total + n

\* total_chunks after an insert_many that succeeded (ok) or raised
total_after(total, n, ok) == IF ok THEN total + n ELSE total

Modes == {"create_schema", "search", "default"}

FileLists == UNION {[1..n -> FileKinds] : n \in 0..MaxFiles}

VARIABLES text, chunk_size, overlap, start, chunks, spans, result, pc,
          mode, mpc, client, connects, dir_exists, files, idx, total_chunks,
          submitted, out, raised

cvars == <<text, chunk_size, overlap, start, chunks, spans, result, pc>>
mvars == <<mode, mpc, client, connects, dir_exists, files, idx, total_chunks,
           submitted, out, raised>>
vars == <<cvars, mvars>>

\* a call of chunk_text on its own (main idle), or a run of main
InitChunk ==
  /\ \/ /\ text \in Texts
        /\ chunk_size \in 1..MaxChunk
        /\ overlap \in 0..(chunk_size - 1)
     \/ /\ text = ExampleText
        /\ chunk_size = 10
        /\ overlap = 2
  /\ start = 0
  /\ chunks = << >>
  /\ spans = << >>
  /\ result = << >>
  /\ pc = IF Len(text) > 0 THEN "loop" ELSE "ret"
  /\ mode = "default"
  /\ mpc = "idle"
  /\ dir_exists = FALSE
  /\ files = << >>

InitMain ==
  /\ text = << >>
  /\ chunk_size = DefaultChunkSize
  /\ overlap = DefaultOverlap
  /\ start = 0
  /\ chunks = << >>
  /\ spans = << >>
  /\ result = << >>
  /\ pc = "idle"
  /\ mode \in Modes
  /\ mpc = "env"
  /\ dir_exists \in BOOLEAN
  /\ files \in (IF dir_exists THEN FileLists ELSE {<< >>})

Init ==
  /\ InitChunk \/ InitMain
  /\ client = "none"
  /\ connects = 0
  /\ idx = 1
  /\ total_chunks = 0
  /\ submitted = << >>
  /\ out = << >>
  /\ raised = FALSE

\* ------------------------------------------------------------- chunk_text
ChunkIterate ==
  /\ pc = "loop"
  /\ Len(chunks) < MaxIter
  /\ LET it == Iteration(text, start, chunk_size, overlap)
     IN /\ chunks' = Append(chunks, strip(it.chunk))
        /\ spans' = Append(spans, <<it.lo, it.hi>>)
        /\ start' = it.next
        /\ pc' = IF it.next < Len(text) THEN "loop" ELSE "ret"
  /\ UNCHANGED <<text, chunk_size, overlap, result, mvars>>

ChunkReturn ==
  /\ pc = "ret"
  /\ result' = NonEmpty(chunks)
  /\ pc' = "done"
  /\ UNCHANGED <<text, chunk_size, overlap, start, chunks, spans, mvars>>

\* ------------------------------------------------------------------- main
Log(msg, f, n) == [msg |-> msg, file |-> f, n |-> n]

\* both API keys are read from the environment; a missing one exits with 1
CheckEnv ==
  /\ mpc = "env"
  /\ \E present \in BOOLEAN : mpc' = IF present THEN "connect" ELSE "exit"
  /\ UNCHANGED <<cvars, mode, client, connects, dir_exists, files, idx,
                 total_chunks, submitted, out, raised>>

\* connect(): the client is stored, or the failure is printed and exit(1)
connect ==
  /\ mpc = "connect"
  /\ \E ok \in BOOLEAN :
       IF ok THEN /\ client' = "open"
                  /\ connects' = connects + 1
                  /\ mpc' = "try"
                  /\ out' = Append(out, Log("Connected", 0, 0))
             ELSE /\ mpc' = "exit"
                  /\ out' = Append(out, Log("FailedConnect", 0, 0))
                  /\ UNCHANGED <<client, connects>>
  /\ UNCHANGED <<cvars, mode, dir_exists, files, idx, total_chunks,
                 submitted, raised>>

\* --create-schema: create_schema() alone; its failures are caught inside
CreateSchemaMode ==
  /\ mpc = "try"
  /\ mode = "create_schema"
  /\ client = "open"
  /\ \E res \in {"Exists", "Created", "FailedSchema"} :
       out' = Append(out, Log(res, 0, 0))
  /\ mpc' = "finally"
  /\ UNCHANGED <<cvars, mode, client, connects, dir_exists, files, idx,
                 total_chunks, submitted, raised>>

\* --search: search_documents() catches its failures and returns []; the
\* printing of a result (score formatted with .4f) is outside that handler
SearchMode ==
  /\ mpc = "try"
  /\ mode = "search"
  /\ client = "open"
  /\ \E res \in {"Results", "SearchFailed", "PrintRaised"} :
       /\ out' = Append(out, Log(res, 0, 0))
       /\ raised' = (res = "PrintRaised")
  /\ mpc' = "finally"
  /\ UNCHANGED <<cvars, mode, client, connects, dir_exists, files, idx,
                 total_chunks, submitted>>

\* default mode: create_schema(), then process_documents() up to its loop
DefaultMode ==
  /\ mpc = "try"
  /\ mode = "default"
  /\ client = "open"
  /\ \E res \in {"Exists", "Created", "FailedSchema"}, get_ok \in BOOLEAN :
       LET o1 == Append(out, Log(res, 0, 0))
       IN IF ~dir_exists
            THEN /\ out' = Append(o1, Log("NoDir", 0, 0))
                 /\ mpc' = "finally"
                 /\ UNCHANGED raised
          ELSE IF files = << >>
            THEN /\ out' = Append(o1, Log("NoFiles", 0, 0))
                 /\ mpc' = "finally"
                 /\ UNCHANGED raised
          ELSE IF ~get_ok
            THEN /\ out' = Append(o1, Log("Found", 0, Len(files)))
                 /\ mpc' = "finally"
                 /\ raised' = TRUE
          ELSE /\ out' = Append(o1, Log("Found", 0, Len(files)))
               /\ mpc' = "files"
               /\ UNCHANGED raised
  /\ idx' = 1
  /\ total_chunks' = 0
  /\ UNCHANGED <<cvars, mode, client, connects, dir_exists, files, submitted>>

\* the body of the for loop for file idx, given the extracted text ex and
\* the chunks ct of that text
HandleFile(ex, ct) ==
  IF ex.text = << >>
    THEN /\ out' = IF ex.failed
                      THEN out \o <<Log("Processing", idx, 0), Log("FailedExtract", idx, 0)>>
                      ELSE Append(out, Log("Processing", idx, 0))
         /\ idx' = idx + 1
         /\ UNCHANGED <<mpc, total_chunks, submitted>>
  ELSE IF ~ct.ok
    THEN /\ mpc' = "spin"
         /\ out' = Append(out, Log("Processing", idx, 0))
         /\ UNCHANGED <<idx, total_chunks, submitted>>
  ELSE IF ct.batch_data = << >>
    THEN /\ out' = out \o <<Log("Processing", idx, 0), Log("Generated", idx, ct.n)>>
         /\ idx' = idx + 1
         /\ UNCHANGED <<mpc, total_chunks, submitted>>
  ELSE \E ok \in BOOLEAN :
         /\ submitted' = Append(submitted,
              [file |-> idx, idxs |-> ct.batch_data, ok |-> ok])
         /\ total_chunks' = total_after(total_chunks, Len(ct.batch_data), ok)
         /\ out' = out \o <<Log("Processing", idx, 0), Log("Generated", idx, ct.n),
                            Log(IF ok THEN "Uploaded" ELSE "FailedUpload",
                                idx, Len(ct.batch_data))>>
         /\ idx' = idx + 1
         /\ UNCHANGED mpc

\* one iteration of the for loop of process_documents; a chunk_text call
\* that never returns leaves the run inside it (mpc = "spin")
ProcessFile ==
  /\ mpc = "files"
  /\ idx <= Len(files)
  /\ client = "open"
  /\ HandleFile(extracted[files[idx]], chunked[files[idx]])
  /\ UNCHANGED <<cvars, mode, client, connects, dir_exists, files, raised>>

\* after the last file: the total is printed and process_documents returns
Report ==
  /\ mpc = "files"
  /\ idx > Len(files)
  /\ out' = Append(out, Log("Total", 0, total_chunks))
  /\ mpc' = "finally"
  /\ UNCHANGED <<cvars, mode, client, connects, dir_exists, files, idx,
                 total_chunks, submitted, raised>>

\* finally: close() closes the client if there is one; then main ends
close ==
  /\ mpc = "finally"
  /\ client' = IF client # "none" THEN "closed" ELSE client
  /\ mpc' = "exit"
  /\ UNCHANGED <<cvars, mode, connects, dir_exists, files, idx, total_chunks,
                 submitted, out, raised>>

Next ==
  \/ ChunkIterate
  \/ ChunkReturn
  \/ CheckEnv
  \/ connect
  \/ CreateSchemaMode
  \/ SearchMode
  \/ DefaultMode
  \/ ProcessFile
  \/ Report
  \/ close

Spec == Init /\ [][Next]_vars

\* main runs to its end unless a call never returns
FairSpec == Spec /\ WF_vars(Next)

\* ================================================================ properties
HasWhitespace(t) == \E i \in 1..Len(t) : t[i] \in Whitespace
Returned == \E k \in 1..Len(out) : out[k].msg = "Total"
FailureLogged ==
  \E k \in 1..Len(out) : out[k].msg \in {"FailedExtract", "FailedUpload"}
RawLen(sp) == sp[2] - sp[1]

\* C1: with chunk_size > overlap >= 0 the window start strictly increases
\* on every iteration of the loop of chunk_text (so the loop terminates).
C1_ForwardProgress == [][ChunkIterate => start' > start]_vars

\* C2: once chunk_text has returned, every non-whitespace position of the
\* text lies inside the window of a returned (non-empty) chunk, and the
\* windows of the chunks are in text order.
C2_Coverage ==
  pc = "done" =>
    /\ \A p \in 1..Len(text) :
         text[p] \notin Whitespace =>
           \E k \in 1..Len(spans) :
             /\ chunks[k] # << >>
             /\ spans[k][1] < p
             /\ p <= spans[k][2]
    /\ \A k \in 1..(Len(spans) - 1) : spans[k][1] <= spans[k + 1][1]

\* C3: a text of exactly chunk_size characters with no internal whitespace
\* gives exactly one chunk, the trimmed text, for every overlap < chunk_size.
C3_SingleChunk ==
  (/\ pc = "done"
   /\ Len(text) = chunk_size
   /\ strip(text) # << >>
   /\ ~HasWhitespace(strip(text)))
  => result = <<strip(text)>>

\* C4 as claimed: for "aaaa bbbb cccc dddd", chunk_size 10, overlap 2 the
\* first returned chunk is "aaaa".
C4_FirstChunkClaimed ==
  (pc = "done" /\ text = ExampleText /\ chunk_size = 10 /\ overlap = 2)
  => (Len(result) >= 1 /\ result[1] = <<"a", "a", "a", "a">>)

\* C4 amended: for "aaaa bbbb cccc dddd", chunk_size 10, overlap 2 the first
\* returned chunk breaks at the last space of the window text[0:10] (index
\* 9) and is "aaaa bbbb".
C4_FirstChunk ==
  (pc = "done" /\ text = ExampleText /\ chunk_size = 10 /\ overlap = 2)
  => (Len(result) >= 1 /\ result[1] = SubSeq(ExampleText, 1, 9))

C4_Witness ==
  pc = "done" /\ text = ExampleText /\ chunk_size = 10 /\ overlap = 2
  /\ Len(result) = 3

\* C5: for every window that does not reach the end of the text, the chunk
\* is cut at the last whitespace character (space, tab or newline) of the
\* window if there is one, and is a hard cut of chunk_size characters only
\* if the window holds no whitespace at all.
C5_BreakAtWhitespace ==
  [][(ChunkIterate /\ start >= 0 /\ start + chunk_size < Len(text)) =>
       LET w == Slice(text, start, start + chunk_size)
           W == {i \in 1..Len(w) : w[i] \in Whitespace}
           raw == RawLen(spans'[Len(spans')])
       IN IF W # {} THEN raw = SetMax(W) - 1 ELSE raw = chunk_size]_vars

\* C6 as claimed: for fixed text and overlap the number of returned chunks
\* does not decrease when chunk_size decreases.
C6_MonotoneClaimed ==
  pc = "done" =>
    \A s2 \in (chunk_size + 1)..(MaxChunk + 1) :
      LET r == chunk_text(text, s2, overlap)
      IN r.ok => Len(r.chunks) <= Len(result)

\* C6 amended: for a text without any whitespace character and a fixed
\* overlap, chunk_text returns for every chunk_size > overlap, and the number
\* of returned chunks does not decrease when chunk_size decreases.
C6_Monotone ==
  (pc = "done" /\ ~HasWhitespace(text)) =>
    \A s2 \in (chunk_size + 1)..(MaxChunk + 1) :
      LET r == chunk_text(text, s2, overlap)
      IN r.ok /\ Len(r.chunks) <= Len(result)

C6_Witness ==
  /\ pc = "done"
  /\ ~HasWhitespace(text)
  /\ Len(text) >= 3
  /\ overlap >= 1
  /\ \E s2 \in (chunk_size + 1)..(MaxChunk + 1) :
       Len(chunk_text(text, s2, overlap).chunks) < Len(result)

\* C7: once a file's extraction or upload has failed, process_documents
\* still goes through the files after it and returns normally (the total is
\* printed).
C7_ContinueAfterFailure == FailureLogged ~> Returned

\* C8: every file handled whose extracted text is empty has no batch
\* submitted and a warning logged for it; every file with non-empty text has
\* at most one batch submitted.
C8_EmptySkippedWithWarning ==
  \A i \in 1..(idx - 1) :
    LET ex == extracted[files[i]]
        B == {k \in 1..Len(submitted) : submitted[k].file = i}
    IN /\ ex.text = << >> =>
            /\ B = {}
            /\ \E k \in 1..Len(out) :
                 out[k].file = i /\ out[k].msg = "FailedExtract"
       /\ Cardinality(B) <= 1

\* C9: the connection is acquired at most once, nothing uses it after it is
\* released, and an acquired connection is eventually released.
C9_AcquireOnceReleaseAlways ==
  /\ [](connects <= 1)
  /\ [](client = "closed" => mpc = "exit")
  /\ (client = "open" ~> client = "closed")

RECURSIVE SumOk(_)
SumOk(bs) ==
  IF bs = << >> THEN 0
  ELSE (IF Head(bs).ok THEN Len(Head(bs).idxs) ELSE 0) + SumOk(Tail(bs))

\* C10: the total that process_documents reports is the number of chunk
\* records in the batches whose upload succeeded; files with empty text and
\* failed uploads add nothing, and the chunk_index values of a batch are
\* 0..n-1.
C10_TotalMatchesUploads ==
  /\ total_chunks = SumOk(submitted)
  /\ \A k \in 1..Len(out) : out[k].msg = "Total" => out[k].n = SumOk(submitted)
  /\ \A k \in 1..Len(submitted) :
       /\ submitted[k].idxs = [j \in 1..Len(submitted[k].idxs) |-> j - 1]
       /\ extracted[files[submitted[k].file]].text # << >>
       /\ \A m \in 1..Len(submitted) : submitted[m].file = submitted[k].file => m = k

C10_Witness ==
  /\ Returned
  /\ total_chunks >= 2
  /\ \E k \in 1..Len(submitted) : ~submitted[k].ok
  /\ \E i \in 1..Len(files) : extracted[files[i]].text = << >>
====
